---- MODULE Spec2Model ----
(***************************************************************************)
(* The chat server of src/server.py: one handler thread per accepted       *)
(* connection (ChatServer._handle_client), two shared maps (_clients,      *)
(* _groups) and one lock (_lock).  A handler's position is pc[c]; every    *)
(* action is one step of one handler between two points where other        *)
(* handlers can interleave: a blocking recv, a blocking sendall, or a      *)
(* critical section of "with self._lock".                                  *)
(***************************************************************************)
EXTENDS Integers, Sequences, FiniteSets, TLC

VARIABLES
    clients,      \* self._clients: nickname -> socket of the session (server.py:25)
    groups,       \* self._groups: group name -> set of nicknames (server.py:26)
    lock,         \* owner of self._lock, or None (server.py:27)
    pc,           \* position of each handler thread
    name,         \* local `name` of _handle_client (server.py:54,57)
    cand,         \* local `candidate` of _negotiate_name while it is live
    cmd,          \* local `tokens` of _process_command while the command runs
    reply,        \* the line the handler is about to write to its own socket
    ret,          \* where the handler continues after that write
    rcpt,         \* local `recipient` of _send_private / _group_send
    members,      \* members of the _group_send snapshot not yet visited
    recipients,   \* sessions of the _broadcast_system snapshot not yet written
    snapConns,    \* history: sockets bound to the snapshot's members when it was taken
    closed,       \* sockets closed by their handler (server.py:81)
    stalled,      \* sockets whose peer has stopped reading
    inbox,        \* lines a client has sent that its handler has not read yet
    net           \* the sendall performed by the last step, or None

vars == <<clients, groups, lock, pc, name, cand, cmd, reply, ret, rcpt,
          members, recipients, snapConns, closed, stalled, inbox, net>>

(***************************************************************************)
(* Bounds of the model.                                                    *)
(***************************************************************************)
Conns == {"c1", "c2", "c3"}      \* accepted connections, one handler each
Nicks == {"a", "b"}              \* valid nicknames the clients try
Groups == {"g"}                  \* group names the clients use
MaxStalled == 1                  \* how many peers may stop reading

None == "none"

\* no line
NoLine == <<>>

\* sorted(...) of nicknames and of group names (server.py:182,195,196)
NickOrder == <<"A", "a", "b">>
GroupOrder == <<"g">>
Sorted(order, S) == SelectSeq(order, LAMBDA x : x \in S)

(***************************************************************************)
(* Input lines.  A line of the Active state is its whitespace tokens       *)
(* (raw.strip().split(), server.py:113); a line of the negotiation is the  *)
(* stripped candidate (server.py:95).                                      *)
(***************************************************************************)
NegLines == Nicks \cup {"_", "", "/quit", "/QUIT"}

\* the lines that reach the registries, and /quit
CoreLines ==
    {<<"/quit">>, <<"/msg", "b", "hi">>}
    \cup {<<"/group", a, g>> : a \in {"create", "join", "leave"}, g \in Groups}
    \cup {<<"/group", "send", g, "hi">> : g \in Groups}

\* every kind of line _handle_client and _process_command tell apart
AllLines ==
    CoreLines
    \cup {<<"/list", "users">>, <<"/list", "groups">>, <<"/help">>, <<"/msg", "a", "hi">>}
    \cup {<<>>, <<"hello">>, <<"/list">>, <<"/list", "rooms">>, <<"/msg", "a">>,
          <<"/group", "create">>, <<"/group", "send", "g">>,
          <<"/group", "kick", "g">>, <<"/who">>}

\* what one recv returns when the client has sent one line or two at once
\* (server.py:63, 92): lines of the negotiation, and lines of the Active state
NegData ==
    {<<l>> : l \in NegLines \cup {"A"}}
    \cup {<<"a", "b">>, <<"a", "/quit">>, <<"", "a">>}

ActData ==
    {<<t>> : t \in AllLines}
    \cup {<<<<"/msg", "b", "hi">>, <<"/quit">>>>, <<<<"hello">>, <<"/quit">>>>,
          <<<<>>, <<"/quit">>>>}

\* str.strip() on lines joined by "\n": the empty lines at both ends go
RECURSIVE StripLeft(_, _)
StripLeft(ls, e) ==
    IF ls # <<>> /\ Head(ls) = e THEN StripLeft(Tail(ls), e) ELSE ls

RECURSIVE StripRight(_, _)
StripRight(ls, e) ==
    IF ls # <<>> /\ ls[Len(ls)] = e THEN StripRight(SubSeq(ls, 1, Len(ls) - 1), e) ELSE ls

RECURSIVE JoinLines(_)
JoinLines(ls) ==
    IF Len(ls) = 1 THEN ls[1] ELSE ls[1] \o "\n" \o JoinLines(Tail(ls))

\* data.decode("utf-8").strip() (server.py:95): all that was read is one candidate
Candidate(data) ==
    LET ls == StripRight(StripLeft(data, ""), "")
    IN  IF ls = <<>> THEN "" ELSE JoinLines(ls)

\* data.decode("utf-8").strip() and raw.strip().split() (server.py:66, 113):
\* all that was read is one message, its tokens those of every line
RECURSIVE Tokens(_)
Tokens(data) == IF data = <<>> THEN <<>> ELSE Head(data) \o Tokens(Tail(data))

\* str.lower() on the tokens the clients send
Lower(t) == IF t = "/QUIT" THEN "/quit" ELSE t

\* characters of a candidate
Chars(s) ==
    CASE s = "a" -> <<"a">>
      [] s = "A" -> <<"A">>
      [] s = "b" -> <<"b">>
      [] s = "_" -> <<"_">>
      [] s = "" -> <<>>
      [] s = "/quit" -> <<"/", "q", "u", "i", "t">>
      [] s = "/QUIT" -> <<"/", "Q", "U", "I", "T">>
      [] s = "a\nb" -> <<"a", "\n", "b">>
      [] s = "a\n/quit" -> <<"a", "\n", "/", "q", "u", "i", "t">>

AlnumChars == {"a", "b", "A", "q", "u", "i", "t", "Q", "U", "I", "T"}

\* str.isalnum(): non-empty and every character alphanumeric
IsAlnum(cs) == cs # <<>> /\ \A i \in 1..Len(cs) : cs[i] \in AlnumChars

\* the test of server.py:99, negated
ValidNick(s) ==
    s # "" /\ IsAlnum(SelectSeq(Chars(s), LAMBDA ch : ch # "_"))

\* message.startswith("/") (server.py:69)
StartsWithSlash(tokens) ==
    tokens[1] \in {"/list", "/quit", "/help", "/msg", "/group", "/who"}

(***************************************************************************)
(* Lines the server writes.                                                *)
(***************************************************************************)
MsgWelcome == <<"Welcome to the network lab chat server!">>
MsgPrompt == <<"Enter a nickname (letters, numbers, underscores). Use /quit to abort.">>
MsgGoodbye == <<"Goodbye!">>
MsgInvalid == <<"Nickname must be alphanumeric (underscores allowed). Try again:">>
MsgNameTaken == <<"Name already in use. Try another:">>
MsgHello(n) == <<"Hello ", n, "! Type /help to see commands.">>
MsgHelp == <<"Commands:">>
MsgUnknownInput == <<"Unknown input. Use /help to see the list of supported commands.">>
MsgUsageList == <<"Usage: /list users|groups">>
MsgUnknownTarget == <<"Unknown list target. Use users or groups.">>
MsgUsageMsg == <<"Usage: /msg <nickname> <message>">>
MsgUsageGroup == <<"Usage: /group create|join|leave|send <group_name> [message]">>
MsgUsageSend == <<"Usage: /group send <group_name> <message>">>
MsgUnknownAction == <<"Unknown group action (create|join|leave|send).">>
MsgBye == <<"Disconnecting. Bye!">>
MsgUnknownCmd == <<"Unknown command. Use /help to see all options.">>
MsgNoUsers == <<"No connected users.">>
NumStr(n) == CASE n = 0 -> "0" [] n = 1 -> "1" [] n = 2 -> "2" [] OTHER -> "many"
MsgUsers(ns) == <<"Online users (", NumStr(Len(ns)), "): ">> \o ns
MsgNoGroups == <<"No groups have been created.">>
RECURSIVE MsgGroups(_, _)
MsgGroups(gs, grp) ==
    IF gs = <<>> THEN <<>>
    ELSE LET ms == Sorted(NickOrder, grp[Head(gs)])
         IN  <<Head(gs), ": ">> \o (IF ms = <<>> THEN <<"(empty)">> ELSE ms)
               \o <<"\n">> \o MsgGroups(Tail(gs), grp)
MsgNotOnline(t) == <<t, " is not online.">>
MsgPM(s, text) == <<"[PM] ", s, ": ">> \o text
MsgPMEcho(t, text) == <<"[PM -> ", t, "] ">> \o text
MsgGroupExists == <<"Group already exists.">>
MsgCreated(g) == <<"Created group ", g, " and joined it.">>
MsgNoGroup == <<"Group does not exist.">>
MsgJoined(g) == <<"Joined group ", g, ".">>
MsgNotMember == <<"You are not a member of that group.">>
MsgLeft(g) == <<"Left group ", g, ".">>
MsgMustJoin == <<"You must join the group before sending messages.">>
MsgGroup(g, s, text) == <<"[Group:", g, "] ", s, ": ">> \o text
MsgGroupEcho(g, text) == <<"[Group:", g, "] (you): ">> \o text
MsgSystem(text) == <<"[System] ">> \o text
MsgJoinedChat(n) == <<n, " joined the chat.">>
MsgLeftChat(n) == <<n, " left the chat.">>

(***************************************************************************)
(* Helpers.                                                                *)
(***************************************************************************)
Upd(f, k, v) == [x \in DOMAIN f \cup {k} |-> IF x = k THEN v ELSE f[x]]
Del(f, k) == [x \in DOMAIN f \ {k} |-> f[x]]
Set(f, c, v) == [f EXCEPT ![c] = v]

NoWrite == [by |-> None, to |-> None, msg |-> NoLine, ok |-> FALSE]

\* _send_line (server.py:270-275): sendall blocks while the peer does not read;
\* on a socket already closed it raises OSError, which is swallowed.
SendLine(by, sock, message) ==
    /\ ~(sock \in stalled /\ sock \notin closed)
    /\ net' = [by |-> by, to |-> sock, msg |-> message, ok |-> sock \notin closed]

\* a step that leaves the handler's locals alone except those given
Goto(c, p) == pc' = Set(pc, c, p)
ReplyWith(c, m, r) == reply' = Set(reply, c, m) /\ ret' = Set(ret, c, r)

(***************************************************************************)
(* Connecting: _handle_client 55-59 and _negotiate_name 86-110.            *)
(***************************************************************************)
\* server.py:56 and 87-90: the welcome line and the nickname prompt, two
\* writes to the handler's own socket with nothing between them
Greet(c) ==
    /\ pc[c] = "welcome"
    /\ SendLine(c, c, MsgPrompt)
    /\ Goto(c, "neg_read")
    /\ UNCHANGED <<clients, groups, lock, name, cand, cmd, reply, ret, rcpt,
                   members, recipients, snapConns, closed, stalled, inbox>>

\* server.py:92-94 (and 78-79): end of stream or a read error
NegEof(c) ==
    /\ pc[c] = "neg_read"
    /\ Goto(c, "close")
    /\ net' = NoWrite
    /\ UNCHANGED <<clients, groups, lock, name, cand, cmd, reply, ret, rcpt,
                   members, recipients, snapConns, closed, stalled, inbox>>

\* server.py:95-103: one candidate; a candidate that is refused or aborts is
\* answered in the same step, the handler touching nothing shared in between
NegLine(c, candidate) ==
    /\ pc[c] = "neg_read"
    /\ IF Lower(candidate) = "/quit"
       THEN /\ SendLine(c, c, MsgGoodbye)
            /\ Goto(c, "close")
            /\ UNCHANGED cand
       ELSE IF ~ValidNick(candidate)
       THEN /\ SendLine(c, c, MsgInvalid)
            /\ UNCHANGED <<pc, cand>>
       ELSE /\ cand' = Set(cand, c, candidate)
            /\ Goto(c, "neg_lock")
            /\ net' = NoWrite
    /\ UNCHANGED <<clients, groups, lock, name, cmd, reply, ret, rcpt,
                   members, recipients, snapConns, closed, stalled>>

\* server.py:92-103: the read of one candidate line
NegRecv(c) ==
    /\ \E candidate \in NegLines : NegLine(c, candidate)
    /\ UNCHANGED inbox

\* NegRegister without the test of server.py:105
NegRegisterNoCheck(c) ==
    /\ pc[c] = "neg_lock"
    /\ lock = None
    /\ clients' = Upd(clients, cand[c], c)
    /\ Goto(c, "neg_hello")
    /\ net' = NoWrite
    /\ UNCHANGED <<groups, lock, name, cand, cmd, reply, ret, rcpt, members,
                   recipients, snapConns, closed, stalled, inbox>>

\* server.py:104-108: check and insert under the lock; on a collision the
\* handler goes on to write while it still holds the lock (106)
NegRegister(c) ==
    /\ pc[c] = "neg_lock"
    /\ lock = None
    /\ IF cand[c] \in DOMAIN clients
       THEN /\ lock' = c
            /\ ReplyWith(c, MsgNameTaken, "neg_read")
            /\ Goto(c, "reply_locked")
            /\ UNCHANGED clients
       ELSE /\ clients' = Upd(clients, cand[c], c)
            /\ Goto(c, "neg_hello")
            /\ UNCHANGED <<lock, reply, ret>>
    /\ net' = NoWrite
    /\ UNCHANGED <<groups, name, cand, cmd, rcpt, members, recipients, snapConns,
                   closed, stalled, inbox>>

\* server.py:109-110 and 57-60: the greeting, `name` is bound, and the help
\* text: two writes to the handler's own socket with nothing shared between
NegHello(c) ==
    /\ pc[c] = "neg_hello"
    /\ SendLine(c, c, MsgHello(cand[c]))
    /\ name' = Set(name, c, cand[c])
    /\ cand' = Set(cand, c, None)
    /\ Goto(c, "bc_snap")
    /\ UNCHANGED <<clients, groups, lock, cmd, reply, ret, rcpt, members,
                   recipients, snapConns, closed, stalled, inbox>>

(***************************************************************************)
(* Active: the read loop of _handle_client 62-77 and _process_command.     *)
(***************************************************************************)
Direct(m, r) == [p |-> r, m |-> m]
Enter(p) == [p |-> p, m |-> NoLine]

\* _process_command (server.py:112-163): where a command line leads
ProcessCommand(tokens) ==
    LET c0 == Lower(tokens[1]) IN
    IF c0 = "/help" THEN Direct(MsgHelp, "read")
    ELSE IF c0 = "/list" THEN
        IF Len(tokens) < 2 THEN Direct(MsgUsageList, "read")
        ELSE IF Lower(tokens[2]) = "users" THEN Enter("lu_lock")
        ELSE IF Lower(tokens[2]) = "groups" THEN Enter("lg_lock")
        ELSE Direct(MsgUnknownTarget, "read")
    ELSE IF c0 = "/msg" THEN
        IF Len(tokens) < 3 THEN Direct(MsgUsageMsg, "read")
        ELSE Enter("pm_lock")
    ELSE IF c0 = "/group" THEN
        IF Len(tokens) < 3 THEN Direct(MsgUsageGroup, "read")
        ELSE LET action == Lower(tokens[2]) IN
             IF action = "create" THEN Enter("gc_lock")
             ELSE IF action = "join" THEN Enter("gj_lock")
             ELSE IF action = "leave" THEN Enter("gl_lock")
             ELSE IF action = "send" THEN
                 IF Len(tokens) < 4 THEN Direct(MsgUsageSend, "read")
                 ELSE Enter("gs_snap")
             ELSE Direct(MsgUnknownAction, "read")
    ELSE IF c0 = "/quit" THEN Direct(MsgBye, "close")
    ELSE Direct(MsgUnknownCmd, "read")

\* the read loop without the test of server.py:67-68: an empty message is
\* taken for text without the command prefix
DispatchEmpty(tokens) ==
    IF tokens # <<>> /\ StartsWithSlash(tokens) THEN ProcessCommand(tokens)
    ELSE Direct(MsgUnknownInput, "read")

\* server.py:66-77: what one received line leads to
Dispatch(tokens) ==
    IF tokens = <<>> THEN Enter("read")
    ELSE IF StartsWithSlash(tokens) THEN ProcessCommand(tokens)
    ELSE Direct(MsgUnknownInput, "read")

\* the locals of the running command (server.py:132-133, 143, 154)
Target(c) == cmd[c][2]
PmText(c) == SubSeq(cmd[c], 3, Len(cmd[c]))
GroupName(c) == cmd[c][3]
GroupText(c) == SubSeq(cmd[c], 4, Len(cmd[c]))

\* server.py:63-65 (and 78-79): end of stream or a read error
Eof(c) ==
    /\ pc[c] = "read"
    /\ Goto(c, "close")
    /\ net' = NoWrite
    /\ UNCHANGED <<clients, groups, lock, name, cand, cmd, reply, ret, rcpt,
                   members, recipients, snapConns, closed, stalled, inbox>>

\* server.py:63-77: one received line; a line answered without the registries
\* (d.m is its answer) is answered in the same step, the handler touching
\* nothing shared in between
RecvLine(c, tokens) ==
    /\ pc[c] = "read"
    /\ LET d == Dispatch(tokens) IN
       /\ Goto(c, d.p)
       /\ IF d.m = NoLine
          THEN /\ net' = NoWrite
               /\ cmd' = Set(cmd, c, IF d.p = "read" THEN <<>> ELSE tokens)
          ELSE /\ SendLine(c, c, d.m)
               /\ UNCHANGED cmd
    /\ UNCHANGED <<clients, groups, lock, name, cand, reply, ret, rcpt,
                   members, recipients, snapConns, closed, stalled>>

\* server.py:63-77: the read of one line out of `lines`
RecvFrom(c, lines) ==
    /\ \E tokens \in lines : RecvLine(c, tokens)
    /\ UNCHANGED inbox

\* a write to the handler's own socket outside the lock, which ends the
\* command (server.py:74, 97, 100, 118-162, 178, 184-187, 198, 206, 209, 217,
\* 225, 236, 244, 253)
Reply(c) ==
    /\ pc[c] = "reply"
    /\ SendLine(c, c, reply[c])
    /\ Goto(c, ret[c])
    /\ ReplyWith(c, NoLine, None)
    /\ cmd' = Set(cmd, c, <<>>)
    /\ snapConns' = Set(snapConns, c, {})
    /\ UNCHANGED <<clients, groups, lock, name, cand, rcpt,
                   members, recipients, closed, stalled, inbox>>

\* the write inside the lock, with the lock never left
ReplyLockedNoRelease(c) ==
    /\ pc[c] = "reply_locked"
    /\ SendLine(c, c, reply[c])
    /\ Goto(c, ret[c])
    /\ ReplyWith(c, NoLine, None)
    /\ cmd' = Set(cmd, c, <<>>)
    /\ cand' = Set(cand, c, None)
    /\ UNCHANGED <<clients, groups, lock, name, rcpt,
                   members, recipients, snapConns, closed, stalled, inbox>>

\* a write to the handler's own socket inside "with self._lock", which is
\* left afterwards (server.py:106-107, 192-193, 214-215, 222-223, 231-232)
ReplyLocked(c) ==
    /\ pc[c] = "reply_locked"
    /\ SendLine(c, c, reply[c])
    /\ lock' = None
    /\ Goto(c, ret[c])
    /\ ReplyWith(c, NoLine, None)
    /\ cmd' = Set(cmd, c, <<>>)
    /\ cand' = Set(cand, c, None)
    /\ UNCHANGED <<clients, groups, name, rcpt,
                   members, recipients, snapConns, closed, stalled, inbox>>

Recv(c) == RecvFrom(c, CoreLines)

\* a client sends one line or two at once, while its handler waits in recv and
\* nothing else is in flight
ClientSend(c) ==
    /\ pc[c] \in {"neg_read", "read"}
    /\ \A d \in Conns : inbox[d] = <<>>
    /\ \E data \in (IF pc[c] = "neg_read" THEN NegData ELSE ActData) :
          inbox' = Set(inbox, c, data)
    /\ net' = NoWrite
    /\ UNCHANGED <<clients, groups, lock, pc, name, cand, cmd, reply, ret, rcpt,
                   members, recipients, snapConns, closed, stalled>>

\* server.py:92-103: recv returns all the client has sent
NegRecvData(c) ==
    /\ pc[c] = "neg_read"
    /\ inbox[c] # <<>>
    /\ NegLine(c, Candidate(inbox[c]))
    /\ inbox' = Set(inbox, c, <<>>)

\* server.py:63-77: recv returns all the client has sent
RecvData(c) ==
    /\ pc[c] = "read"
    /\ inbox[c] # <<>>
    /\ RecvLine(c, Tokens(inbox[c]))
    /\ inbox' = Set(inbox, c, <<>>)

\* server.py:92-94, 63-65: recv returns b"" once the client has closed its
\* end and all it sent has been read
NegEofData(c) == inbox[c] = <<>> /\ NegEof(c)

EofData(c) == inbox[c] = <<>> /\ Eof(c)

RecvAny(c) == RecvFrom(c, AllLines)

\* _list_users (server.py:180-187)
ListUsers(c) ==
    /\ pc[c] = "lu_lock"
    /\ lock = None
    /\ LET names == Sorted(NickOrder, DOMAIN clients) IN
       ReplyWith(c, IF names = <<>> THEN MsgNoUsers ELSE MsgUsers(names), "read")
    /\ Goto(c, "reply")
    /\ net' = NoWrite
    /\ UNCHANGED <<clients, groups, lock, name, cand, cmd, rcpt,
                   members, recipients, snapConns, closed, stalled, inbox>>

\* the text of _list_groups (server.py:191-198)
GroupListing(grp) ==
    IF DOMAIN grp = {} THEN MsgNoGroups
    ELSE MsgGroups(Sorted(GroupOrder, DOMAIN grp), grp)

\* _list_groups (server.py:189-198)
ListGroups(c) ==
    /\ pc[c] = "lg_lock"
    /\ lock = None
    /\ IF DOMAIN groups = {}
       THEN /\ lock' = c
            /\ ReplyWith(c, MsgNoGroups, "read")
            /\ Goto(c, "reply_locked")
       ELSE /\ ReplyWith(c, GroupListing(groups), "read")
            /\ Goto(c, "reply")
            /\ UNCHANGED lock
    /\ net' = NoWrite
    /\ UNCHANGED <<clients, groups, name, cand, cmd, rcpt,
                   members, recipients, snapConns, closed, stalled, inbox>>

\* _send_private without the return of server.py:207: the handler goes on to
\* recipient.socket with no recipient, and the exception ends it
PrivateLookupNoReturn(c) ==
    /\ pc[c] = "pm_lock"
    /\ lock = None
    /\ IF Target(c) \in DOMAIN clients
       THEN /\ rcpt' = Set(rcpt, c, clients[Target(c)])
            /\ Goto(c, "pm_send")
            /\ UNCHANGED <<reply, ret>>
       ELSE /\ ReplyWith(c, MsgNotOnline(Target(c)), "close")
            /\ Goto(c, "reply")
            /\ UNCHANGED rcpt
    /\ net' = NoWrite
    /\ UNCHANGED <<clients, groups, lock, name, cand, cmd,
                   members, recipients, snapConns, closed, stalled, inbox>>

\* _send_private (server.py:203-207): the lookup
PrivateLookup(c) ==
    /\ pc[c] = "pm_lock"
    /\ lock = None
    /\ IF Target(c) \in DOMAIN clients
       THEN /\ rcpt' = Set(rcpt, c, clients[Target(c)])
            /\ Goto(c, "pm_send")
            /\ UNCHANGED <<reply, ret>>
       ELSE /\ ReplyWith(c, MsgNotOnline(Target(c)), "read")
            /\ Goto(c, "reply")
            /\ UNCHANGED rcpt
    /\ net' = NoWrite
    /\ UNCHANGED <<clients, groups, lock, name, cand, cmd,
                   members, recipients, snapConns, closed, stalled, inbox>>

\* _send_private (server.py:208-209): the delivery; the echo is next
PrivateSend(c) ==
    /\ pc[c] = "pm_send"
    /\ SendLine(c, rcpt[c], MsgPM(name[c], PmText(c)))
    /\ rcpt' = Set(rcpt, c, None)
    /\ ReplyWith(c, MsgPMEcho(Target(c), PmText(c)), "read")
    /\ Goto(c, "reply")
    /\ UNCHANGED <<clients, groups, lock, name, cand, cmd,
                   members, recipients, snapConns, closed, stalled, inbox>>

(***************************************************************************)
(* The Group Registry: _group_create, _group_join, _group_leave,           *)
(* _group_send and the purge of _remove_client.                            *)
(***************************************************************************)
\* an assignment of a fresh set in place of the add of server.py:216,224
AddMemberAlone(grp, g, n) == Upd(grp, g, {n})

\* self._groups[group_name].add(name) on a defaultdict(set) (server.py:216,224)
AddMember(grp, g, n) ==
    Upd(grp, g, (IF g \in DOMAIN grp THEN grp[g] ELSE {}) \cup {n})

\* members.remove(name) without the del of server.py:234-235
RemoveMemberKeepEmpty(grp, g, n) == Upd(grp, g, grp[g] \ {n})

\* members.remove(name), then del when empty (server.py:233-235)
RemoveMember(grp, g, n) ==
    IF grp[g] \ {n} = {} THEN Del(grp, g) ELSE Upd(grp, g, grp[g] \ {n})

\* _remove_client without its loop over the groups
PurgeNothing(grp, n) == grp

\* the loop of _remove_client with the discard only where the del follows
PurgeKeepShared(grp, n) ==
    LET kept == {g \in DOMAIN grp : grp[g] # {n}}
    IN  [g \in kept |-> grp[g]]

\* the loop of _remove_client (server.py:265-268)
Purge(grp, n) ==
    LET kept == {g \in DOMAIN grp : grp[g] \ {n} # {}}
    IN  [g \in kept |-> grp[g] \ {n}]

\* self._groups.get(group_name, set()).copy() (server.py:242)
MembersOf(grp, g) == IF g \in DOMAIN grp THEN grp[g] ELSE {}

\* _group_create (server.py:211-217)
GroupCreate(c) ==
    /\ pc[c] = "gc_lock"
    /\ lock = None
    /\ IF GroupName(c) \in DOMAIN groups
       THEN /\ lock' = c
            /\ ReplyWith(c, MsgGroupExists, "read")
            /\ Goto(c, "reply_locked")
            /\ UNCHANGED groups
       ELSE /\ groups' = AddMember(groups, GroupName(c), name[c])
            /\ ReplyWith(c, MsgCreated(GroupName(c)), "read")
            /\ Goto(c, "reply")
            /\ UNCHANGED lock
    /\ net' = NoWrite
    /\ UNCHANGED <<clients, name, cand, cmd, rcpt,
                   members, recipients, snapConns, closed, stalled, inbox>>

\* _group_join without the test of server.py:221: the defaultdict makes the group
GroupJoinNoCheck(c) ==
    /\ pc[c] = "gj_lock"
    /\ lock = None
    /\ groups' = AddMember(groups, GroupName(c), name[c])
    /\ ReplyWith(c, MsgJoined(GroupName(c)), "read")
    /\ Goto(c, "reply")
    /\ net' = NoWrite
    /\ UNCHANGED <<clients, lock, name, cand, cmd, rcpt,
                   members, recipients, snapConns, closed, stalled, inbox>>

\* _group_join that turns away a caller who is a member already
GroupJoinRefuseMember(c) ==
    /\ pc[c] = "gj_lock"
    /\ lock = None
    /\ IF GroupName(c) \notin DOMAIN groups \/ name[c] \in groups[GroupName(c)]
       THEN /\ lock' = c
            /\ ReplyWith(c, (IF GroupName(c) \notin DOMAIN groups
                             THEN MsgNoGroup ELSE MsgGroupExists), "read")
            /\ Goto(c, "reply_locked")
            /\ UNCHANGED groups
       ELSE /\ groups' = AddMember(groups, GroupName(c), name[c])
            /\ ReplyWith(c, MsgJoined(GroupName(c)), "read")
            /\ Goto(c, "reply")
            /\ UNCHANGED lock
    /\ net' = NoWrite
    /\ UNCHANGED <<clients, name, cand, cmd, rcpt,
                   members, recipients, snapConns, closed, stalled, inbox>>

\* _group_join (server.py:219-225)
GroupJoin(c) ==
    /\ pc[c] = "gj_lock"
    /\ lock = None
    /\ IF GroupName(c) \notin DOMAIN groups
       THEN /\ lock' = c
            /\ ReplyWith(c, MsgNoGroup, "read")
            /\ Goto(c, "reply_locked")
            /\ UNCHANGED groups
       ELSE /\ groups' = AddMember(groups, GroupName(c), name[c])
            /\ ReplyWith(c, MsgJoined(GroupName(c)), "read")
            /\ Goto(c, "reply")
            /\ UNCHANGED lock
    /\ net' = NoWrite
    /\ UNCHANGED <<clients, name, cand, cmd, rcpt,
                   members, recipients, snapConns, closed, stalled, inbox>>

\* _group_leave (server.py:227-236)
GroupLeave(c) ==
    /\ pc[c] = "gl_lock"
    /\ lock = None
    /\ IF MembersOf(groups, GroupName(c)) = {}
          \/ name[c] \notin MembersOf(groups, GroupName(c))
       THEN /\ lock' = c
            /\ ReplyWith(c, MsgNotMember, "read")
            /\ Goto(c, "reply_locked")
            /\ UNCHANGED groups
       ELSE /\ groups' = RemoveMember(groups, GroupName(c), name[c])
            /\ ReplyWith(c, MsgLeft(GroupName(c)), "read")
            /\ Goto(c, "reply")
            /\ UNCHANGED lock
    /\ net' = NoWrite
    /\ UNCHANGED <<clients, name, cand, cmd, rcpt,
                   members, recipients, snapConns, closed, stalled, inbox>>

\* the sockets the sessions of a set of nicknames are bound to
SocketsOf(cl, ns) == {cl[n] : n \in ns \cap DOMAIN cl}

\* the self-echo of _group_send is next (server.py:253)
EchoNext(c) ==
    /\ ReplyWith(c, MsgGroupEcho(GroupName(c), GroupText(c)), "read")
    /\ Goto(c, "reply")

\* _group_send (server.py:241-245): the member snapshot
GroupSendSnap(c) ==
    /\ pc[c] = "gs_snap"
    /\ lock = None
    /\ LET ms == MembersOf(groups, GroupName(c)) IN
       IF name[c] \notin ms
       THEN /\ ReplyWith(c, MsgMustJoin, "read")
            /\ Goto(c, "reply")
            /\ UNCHANGED <<members, snapConns>>
       ELSE /\ members' = Set(members, c, ms \ {name[c]})
            /\ snapConns' = Set(snapConns, c, SocketsOf(clients, ms))
            /\ IF ms \ {name[c]} = {}
               THEN EchoNext(c)
               ELSE Goto(c, "gs_lookup") /\ UNCHANGED <<reply, ret>>
    /\ net' = NoWrite
    /\ UNCHANGED <<clients, groups, lock, name, cand, cmd, rcpt,
                   recipients, closed, stalled, inbox>>

\* _group_send (server.py:246-251): the next member of the snapshot, in the
\* order the set yields it, and the lookup of its session
GroupSendLookup(c) ==
    /\ pc[c] = "gs_lookup"
    /\ lock = None
    /\ \E member \in members[c] :
          /\ members' = Set(members, c, members[c] \ {member})
          /\ IF member \in DOMAIN clients
             THEN /\ rcpt' = Set(rcpt, c, clients[member])
                  /\ Goto(c, "gs_write")
                  /\ UNCHANGED <<reply, ret>>
             ELSE /\ UNCHANGED rcpt
                  /\ IF members[c] \ {member} = {}
                     THEN EchoNext(c)
                     ELSE UNCHANGED <<pc, reply, ret>>
    /\ net' = NoWrite
    /\ UNCHANGED <<clients, groups, lock, name, cand, cmd,
                   recipients, snapConns, closed, stalled, inbox>>

\* _group_send (server.py:252): the delivery to one member
GroupSendWrite(c) ==
    /\ pc[c] = "gs_write"
    /\ SendLine(c, rcpt[c], MsgGroup(GroupName(c), name[c], GroupText(c)))
    /\ rcpt' = Set(rcpt, c, None)
    /\ IF members[c] = {}
       THEN EchoNext(c)
       ELSE Goto(c, "gs_lookup") /\ UNCHANGED <<reply, ret>>
    /\ UNCHANGED <<clients, groups, lock, name, cand, cmd,
                   members, recipients, snapConns, closed, stalled, inbox>>

(***************************************************************************)
(* _broadcast_system, and Closing: the finally of _handle_client with      *)
(* _remove_client.                                                         *)
(***************************************************************************)
\* where the handler continues after a broadcast (server.py:61-62, 84)
AfterBroadcast(c) == IF c \in closed THEN "done" ELSE "read"

\* the thread's `name` once it is at p: a finished thread has no locals
NameAt(c, p) == name' = Set(name, c, IF p = "done" THEN None ELSE name[c])

\* the notice of server.py:61 or of server.py:84
Notice(c) ==
    MsgSystem(IF c \in closed THEN MsgLeftChat(name[c]) ELSE MsgJoinedChat(name[c]))

\* _broadcast_system (server.py:256-257): the snapshot of the sessions
BroadcastSnap(c) ==
    /\ pc[c] = "bc_snap"
    /\ lock = None
    /\ LET socks == SocketsOf(clients, DOMAIN clients) IN
       /\ recipients' = Set(recipients, c, socks)
       /\ Goto(c, IF socks = {} THEN AfterBroadcast(c) ELSE "bc_send")
       /\ NameAt(c, IF socks = {} THEN AfterBroadcast(c) ELSE "bc_send")
    /\ net' = NoWrite
    /\ UNCHANGED <<clients, groups, lock, cand, cmd, reply, ret, rcpt,
                   members, snapConns, closed, stalled, inbox>>

\* _broadcast_system over a _send_line that lets OSError through: a failed
\* write ends the loop and the handler
BroadcastSendRaises(c) ==
    /\ pc[c] = "bc_send"
    /\ \E sock \in recipients[c] :
          /\ SendLine(c, sock, Notice(c))
          /\ IF sock \in closed
             THEN /\ recipients' = Set(recipients, c, {})
                  /\ Goto(c, IF c \in closed THEN "done" ELSE "close")
                  /\ NameAt(c, IF c \in closed THEN "done" ELSE "close")
             ELSE /\ recipients' = Set(recipients, c, recipients[c] \ {sock})
                  /\ Goto(c, IF recipients[c] \ {sock} = {} THEN AfterBroadcast(c) ELSE "bc_send")
                  /\ NameAt(c, IF recipients[c] \ {sock} = {} THEN AfterBroadcast(c) ELSE "bc_send")
    /\ UNCHANGED <<clients, groups, lock, cand, cmd, reply, ret, rcpt,
                   members, snapConns, closed, stalled, inbox>>

\* _broadcast_system (server.py:258-259): the write to one session of the snapshot
BroadcastSend(c) ==
    /\ pc[c] = "bc_send"
    /\ \E sock \in recipients[c] :
          /\ SendLine(c, sock, Notice(c))
          /\ recipients' = Set(recipients, c, recipients[c] \ {sock})
          /\ Goto(c, IF recipients[c] \ {sock} = {} THEN AfterBroadcast(c) ELSE "bc_send")
          /\ NameAt(c, IF recipients[c] \ {sock} = {} THEN AfterBroadcast(c) ELSE "bc_send")
    /\ UNCHANGED <<clients, groups, lock, cand, cmd, reply, ret, rcpt,
                   members, snapConns, closed, stalled, inbox>>

\* the finally of _handle_client without the test of server.py:82
CloseAlwaysRemoves(c) ==
    /\ pc[c] = "close"
    /\ closed' = closed \cup {c}
    /\ Goto(c, "rc_lock")
    /\ net' = NoWrite
    /\ UNCHANGED <<clients, groups, lock, name, cand, cmd, reply, ret, rcpt,
                   members, recipients, snapConns, stalled, inbox>>

\* server.py:80-82: client_sock.close()
Close(c) ==
    /\ pc[c] = "close"
    /\ closed' = closed \cup {c}
    /\ Goto(c, IF name[c] # None THEN "rc_lock" ELSE "done")
    /\ net' = NoWrite
    /\ UNCHANGED <<clients, groups, lock, name, cand, cmd, reply, ret, rcpt,
                   members, recipients, snapConns, stalled, inbox>>

\* _remove_client that purges the groups and leaves the session in _clients
RemoveClientKeepsSession(c) ==
    /\ pc[c] = "rc_lock"
    /\ lock = None
    /\ groups' = Purge(groups, name[c])
    /\ Goto(c, "bc_snap")
    /\ net' = NoWrite
    /\ UNCHANGED <<clients, lock, name, cand, cmd, reply, ret, rcpt,
                   members, recipients, snapConns, closed, stalled, inbox>>

\* _remove_client (server.py:261-268): one critical section
RemoveClient(c) ==
    /\ pc[c] = "rc_lock"
    /\ lock = None
    /\ IF name[c] \in DOMAIN clients
       THEN /\ clients' = Del(clients, name[c])
            /\ groups' = Purge(groups, name[c])
       ELSE UNCHANGED <<clients, groups>>
    /\ Goto(c, "bc_snap")
    /\ net' = NoWrite
    /\ UNCHANGED <<lock, name, cand, cmd, reply, ret, rcpt,
                   members, recipients, snapConns, closed, stalled, inbox>>

\* the peer of an open connection stops reading: writes to it block from now on
Stall(c) ==
    /\ c \notin stalled
    /\ c \notin closed
    /\ Cardinality(stalled) < MaxStalled
    /\ stalled' = stalled \cup {c}
    /\ net' = NoWrite
    /\ UNCHANGED <<clients, groups, lock, pc, name, cand, cmd, reply, ret, rcpt,
                   members, recipients, snapConns, closed, inbox>>

(***************************************************************************)
(* The specification.                                                      *)
(***************************************************************************)
\* ChatServer.__init__ (server.py:25-27) and the start of each handler (53-54)
Init ==
    /\ clients = [n \in {} |-> None]
    /\ groups = [g \in {} |-> {}]
    /\ lock = None
    /\ pc = [c \in Conns |-> "welcome"]
    /\ name = [c \in Conns |-> None]
    /\ cand = [c \in Conns |-> None]
    /\ cmd = [c \in Conns |-> <<>>]
    /\ reply = [c \in Conns |-> NoLine]
    /\ ret = [c \in Conns |-> None]
    /\ rcpt = [c \in Conns |-> None]
    /\ members = [c \in Conns |-> {}]
    /\ recipients = [c \in Conns |-> {}]
    /\ snapConns = [c \in Conns |-> {}]
    /\ closed = {}
    /\ stalled = {}
    /\ inbox = [c \in Conns |-> <<>>]
    /\ net = NoWrite

\* a step of handler c that waits for nothing but the lock
Locked(c) ==
    \/ NegRegister(c) \/ PrivateLookup(c)
    \/ GroupCreate(c) \/ GroupJoin(c) \/ GroupLeave(c)
    \/ GroupSendSnap(c) \/ GroupSendLookup(c)
    \/ BroadcastSnap(c) \/ RemoveClient(c)

\* a step of handler c that waits for nothing but a write
Writes(c) ==
    \/ Greet(c) \/ NegHello(c) \/ Reply(c) \/ ReplyLocked(c)
    \/ PrivateSend(c) \/ GroupSendWrite(c) \/ BroadcastSend(c) \/ Close(c)

\* one step of the handler of connection c, its client sending CoreLines
Handler(c) ==
    \/ NegEof(c) \/ NegRecv(c) \/ Eof(c) \/ Recv(c)
    \/ Locked(c) \/ Writes(c)

\* every write completes: no peer stops reading
Next == \E c \in Conns : Handler(c)

Spec == Init /\ [][Next]_vars

\* two connections, whose peers may stop reading
StallConns == {"c1", "c2"}

NextStall == \E c \in StallConns : Handler(c) \/ Stall(c)

SpecStall == Init /\ [][NextStall]_vars

\* two connections, their clients sending AllLines; every write completes
LiveConns == {"c1", "c2"}

Lists(c) == ListUsers(c) \/ ListGroups(c)

NextLive ==
    \E c \in LiveConns :
        \/ NegEof(c) \/ NegRecv(c) \/ Eof(c) \/ RecvAny(c)
        \/ Locked(c) \/ Lists(c) \/ Writes(c)

\* two connections, whose clients send NegData and ActData
InputConns == {"c1", "c2"}

NextInput ==
    \E c \in InputConns :
        \/ ClientSend(c) \/ NegRecvData(c) \/ RecvData(c)
        \/ NegEofData(c) \/ EofData(c)
        \/ Locked(c) \/ Lists(c) \/ Writes(c)

SpecInput == Init /\ [][NextInput]_vars

\* a thread that can run does run, and a thread that finds the lock free
\* again and again does get it; no client has to send anything
Fairness ==
    \A c \in LiveConns :
        /\ WF_vars(Writes(c))
        /\ SF_vars(Locked(c) \/ Lists(c))

LiveSpec == Init /\ [][NextLive]_vars /\ Fairness

\* the same scheduling where peers may stop reading: a write to a peer that
\* does not read is not enabled, so nothing forces it
FairnessStall ==
    \A c \in StallConns :
        /\ WF_vars(Writes(c))
        /\ SF_vars(Locked(c))

LiveSpecStall == Init /\ [][NextStall]_vars /\ FairnessStall

(***************************************************************************)
(* Properties.                                                             *)
(***************************************************************************)
Registry == <<clients, groups>>

\* handler c has taken a step
Stepped(c) ==
    <<pc[c], cand[c], cmd[c], reply[c], members[c], recipients[c]>>'
        # <<pc[c], cand[c], cmd[c], reply[c], members[c], recipients[c]>>

\* the write of line m by handler c to its own socket and to no other
WroteOwn(c, m) == net' = [by |-> c, to |-> c, msg |-> m, ok |-> c \notin closed]

\* handler c holds nickname n: it has inserted n and not yet removed it
Holds(c, n) ==
    \/ pc[c] = "neg_hello" /\ cand[c] = n
    \/ name[c] = n /\ ~(c \in closed /\ pc[c] \in {"bc_snap", "bc_send", "done"})

\* at most one handler holds a nickname, and the registry binds the nickname
\* to that handler's socket and to nothing when nobody holds it
OneHolder ==
    \A n \in Nicks :
        /\ Cardinality({c \in Conns : Holds(c, n)}) <= 1
        /\ \A c \in Conns : Holds(c, n) <=> (n \in DOMAIN clients /\ clients[n] = c)

\* a registration attempt on a name in use changes nothing and leads to the
\* re-prompt; one on a free name inserts the session and leads to the greeting
RegisterStep(c) ==
    pc[c] = "neg_lock" /\ Stepped(c) =>
        IF cand[c] \in DOMAIN clients
        THEN /\ UNCHANGED Registry
             /\ pc'[c] = "reply_locked" /\ reply'[c] = MsgNameTaken
             /\ ret'[c] = "neg_read" /\ name'[c] = None
        ELSE /\ clients' = Upd(clients, cand[c], c) /\ UNCHANGED groups
             /\ pc'[c] = "neg_hello"

\* the re-prompt is written to the loser, who stays in Connecting; the
\* greeting is written to the winner
RegisterAnswer(c) ==
    /\ pc[c] = "reply_locked" /\ reply[c] = MsgNameTaken /\ Stepped(c) =>
          /\ WroteOwn(c, MsgNameTaken) /\ pc'[c] = "neg_read"
          /\ name'[c] = None /\ UNCHANGED Registry
    /\ pc[c] = "neg_hello" /\ Stepped(c) =>
          /\ WroteOwn(c, MsgHello(cand[c])) /\ name'[c] = cand[c]
          /\ UNCHANGED Registry

\* C1: of the handlers that submit the same valid nickname, in any
\* interleaving, exactly one is registered and greeted with "Hello <nick>!";
\* every other one is re-prompted with "Name already in use." and stays in
\* Connecting, and the registry holds one session for the nickname, the winner's.
C1_OneRegistrationWins ==
    /\ []OneHolder
    /\ [][\A c \in Conns : RegisterStep(c) /\ RegisterAnswer(c)]_vars

\* three handlers submitted the same nickname: one is about to be greeted, one
\* is about to be re-prompted, one has yet to enter the critical section
C1_Witness ==
    \E c1, c2, c3 \in Conns :
        /\ pc[c1] = "neg_hello" /\ pc[c2] = "reply_locked" /\ pc[c3] = "neg_lock"
        /\ cand[c1] = cand[c2] /\ cand[c2] = cand[c3]
        /\ reply[c2] = MsgNameTaken

NoEmptyGroup == \A g \in DOMAIN groups : groups[g] # {}

\* a group appears only by a create, with the creator as its member, and
\* disappears only when its last member leaves or disconnects
GroupLifetime ==
    \A g \in Groups :
        /\ g \notin DOMAIN groups /\ g \in DOMAIN groups' =>
              \E c \in Conns : /\ pc[c] = "gc_lock" /\ GroupName(c) = g
                               /\ groups'[g] = {name[c]}
        /\ g \in DOMAIN groups /\ g \notin DOMAIN groups' =>
              \E c \in Conns : /\ groups[g] = {name[c]}
                               /\ \/ pc[c] = "gl_lock" /\ GroupName(c) = g
                                  \/ pc[c] = "rc_lock"
        /\ g \in DOMAIN groups /\ g \in DOMAIN groups' => groups'[g] # {}

\* C2: in every reachable state no group of the Group Registry has an empty
\* member set; a group exists from its creation until its last member leaves
\* or disconnects.
C2_NoEmptyGroup == []NoEmptyGroup /\ [][GroupLifetime]_vars

\* the last member has left, the group is gone, and the confirmation is due
C2_Witness ==
    \E c \in Conns, g \in Groups :
        /\ pc[c] = "reply" /\ reply[c] = MsgLeft(g)
        /\ g \notin DOMAIN groups

MembersOnline == \A g \in DOMAIN groups : groups[g] \subseteq DOMAIN clients

\* the step that removes n from the Session Registry also removes n from
\* every group and deletes the groups n was alone in, and touches nothing else
RemovalStep ==
    \A n \in Nicks :
        n \in DOMAIN clients /\ n \notin DOMAIN clients' =>
            /\ clients' = Del(clients, n)
            /\ \A g \in DOMAIN groups' : n \notin groups'[g]
            /\ \A g \in DOMAIN groups :
                  IF groups[g] = {n} THEN g \notin DOMAIN groups'
                  ELSE g \in DOMAIN groups' /\ groups'[g] = groups[g] \ {n}
            /\ DOMAIN groups' \subseteq DOMAIN groups

\* C3: the end of the session of N removes N from the Session Registry and
\* from every group, deleting the groups left empty, in one step: no state has
\* N absent from the Session Registry and still a member of a group.
C3_AtomicRemoval == []MembersOnline /\ [][RemovalStep]_vars

\* a session that another handler's snapshot still lists as a group member
\* has ended and is gone from the registry and from every group
C3_Witness ==
    \E c, d \in Conns :
        /\ c \in closed /\ pc[c] = "bc_snap" /\ name[c] \notin DOMAIN clients
        /\ pc[d] = "gs_lookup" /\ name[c] \in members[d]
        /\ DOMAIN groups # {}
        /\ \A g \in DOMAIN groups : name[c] \notin groups[g]

\* the write w is a delivery of _group_send to a member (server.py:252)
IsGroupDelivery(w) == Len(w.msg) >= 3 /\ w.msg[1] = "[Group:" /\ w.msg[3] = "] "

\* the snapshot step: a sender outside the snapshot gets the error and
\* nothing is delivered; a member starts the fan-out over the other members
SendSnapStep(c) ==
    pc[c] = "gs_snap" /\ Stepped(c) =>
        /\ UNCHANGED Registry /\ net' = NoWrite
        /\ IF name[c] \in MembersOf(groups, GroupName(c))
           THEN /\ members'[c] = MembersOf(groups, GroupName(c)) \ {name[c]}
                /\ members'[c] # {} => pc'[c] = "gs_lookup"
                /\ members'[c] = {} =>
                      /\ pc'[c] = "reply" /\ ret'[c] = "read"
                      /\ reply'[c] = MsgGroupEcho(GroupName(c), GroupText(c))
           ELSE /\ pc'[c] = "reply" /\ reply'[c] = MsgMustJoin /\ ret'[c] = "read"

\* the fan-out: every member of the snapshot is visited once, one that is
\* online is written "[Group:G] S: text", and the self-echo follows the last
SendFanOut(c) ==
    /\ pc[c] = "gs_lookup" /\ Stepped(c) =>
          \E member \in members[c] :
              /\ members'[c] = members[c] \ {member}
              /\ IF member \in DOMAIN clients
                 THEN pc'[c] = "gs_write" /\ rcpt'[c] = clients[member]
                 ELSE IF members'[c] = {}
                      THEN /\ pc'[c] = "reply"
                           /\ reply'[c] = MsgGroupEcho(GroupName(c), GroupText(c))
                      ELSE pc'[c] = "gs_lookup"
    /\ pc[c] = "gs_write" /\ Stepped(c) =>
          /\ net'.by = c /\ net'.to = rcpt[c]
          /\ net'.msg = MsgGroup(GroupName(c), name[c], GroupText(c))
          /\ IF members[c] = {}
             THEN /\ pc'[c] = "reply"
                  /\ reply'[c] = MsgGroupEcho(GroupName(c), GroupText(c))
             ELSE pc'[c] = "gs_lookup"

\* a delivery goes only to a connection whose user was a member of G when the
\* snapshot was taken
DeliveredToMembersOnly ==
    IsGroupDelivery(net') => net'.to \in snapConns[net'.by]

\* C4: a GroupSend(G, text) by a member S, under any interleaving with joins,
\* leaves, disconnects and registrations, writes "[Group:G] S: text" to every
\* other member that is online and "[Group:G] (you): text" to S, and to no
\* connection of a user who is not a member of G; a sender outside the
\* snapshot gets an error and nothing is delivered.
C4_GroupSendReachesMembersOnly ==
    [][/\ \A c \in Conns : SendSnapStep(c) /\ SendFanOut(c)
       /\ DeliveredToMembersOnly]_vars

\* the parts of C4 other than the one about non-members
C4_FanOutVisitsSnapshot == [][\A c \in Conns : SendSnapStep(c) /\ SendFanOut(c)]_vars

\* C5: no handler performs a network write, to its own connection or any
\* other, while it holds the registry lock.
C5_NoWriteUnderLock == [][net' # NoWrite => lock # net'.by]_vars

ConflictErrors == {MsgGroupExists, MsgNoGroup, MsgNotMember, MsgMustJoin}

\* the command of handler c runs into a state conflict
Conflict(c) ==
    \/ pc[c] = "gc_lock" /\ GroupName(c) \in DOMAIN groups
    \/ pc[c] = "gj_lock" /\ GroupName(c) \notin DOMAIN groups
    \/ pc[c] = "gl_lock" /\ name[c] \notin MembersOf(groups, GroupName(c))
    \/ pc[c] = "gs_snap" /\ name[c] \notin MembersOf(groups, GroupName(c))

\* the error of each conflict
ConflictError(c) ==
    CASE pc[c] = "gc_lock" -> MsgGroupExists
      [] pc[c] = "gj_lock" -> MsgNoGroup
      [] pc[c] = "gl_lock" -> MsgNotMember
      [] pc[c] = "gs_snap" -> MsgMustJoin

\* a conflict changes neither registry and writes nothing; its error line is
\* due next, then the read loop
ConflictStep(c) ==
    Conflict(c) /\ Stepped(c) =>
        /\ UNCHANGED Registry /\ net' = NoWrite
        /\ pc'[c] \in {"reply", "reply_locked"}
        /\ reply'[c] = ConflictError(c) /\ ret'[c] = "read"

\* the error line goes to the sender and to nobody else, and changes nothing
ConflictAnswer(c) ==
    pc[c] \in {"reply", "reply_locked"} /\ reply[c] \in ConflictErrors /\ Stepped(c) =>
        /\ WroteOwn(c, reply[c]) /\ UNCHANGED Registry /\ pc'[c] = "read"

\* C8: create on an existing group, join on a non-existent group, leave on a
\* non-existent group or by a non-member, and send on a non-existent group or
\* by a non-member leave both registries as they were and send one error line,
\* to the sender only.
C8_ConflictsChangeNothing ==
    [][\A c \in Conns : ConflictStep(c) /\ ConflictAnswer(c)]_vars

\* a create on an existing group is about to be answered, and the caller has
\* not been added to the group
C8_Witness ==
    \E c \in Conns, g \in Groups :
        /\ pc[c] = "reply_locked" /\ reply[c] = MsgGroupExists /\ GroupName(c) = g
        /\ g \in DOMAIN groups /\ name[c] \notin groups[g]

\* the lookup of an absent target changes nothing and writes nothing; the
\* "not online" line is due next, then the read loop
OfflineStep(c) ==
    pc[c] = "pm_lock" /\ Target(c) \notin DOMAIN clients /\ Stepped(c) =>
        /\ UNCHANGED Registry /\ net' = NoWrite
        /\ pc'[c] = "reply" /\ reply'[c] = MsgNotOnline(Target(c))
        /\ ret'[c] = "read"

\* that line goes to the sender and to nobody else, and the sender is back
\* in the read loop
OfflineAnswer(c) ==
    pc[c] = "reply" /\ Len(reply[c]) = 2 /\ reply[c][2] = " is not online." /\ Stepped(c) =>
        /\ WroteOwn(c, reply[c]) /\ UNCHANGED Registry /\ pc'[c] = "read"

\* C9: a PrivateMessage to a nickname that is not in the Session Registry
\* writes the one line "<target> is not online." to the sender and nothing to
\* any other connection, changes neither registry, and leaves the sender Active.
C9_OfflineTarget == [][\A c \in Conns : OfflineStep(c) /\ OfflineAnswer(c)]_vars

\* the sender has been told that b is not online and reads its next line
C9_Witness ==
    \E c \in Conns :
        /\ net = [by |-> c, to |-> c, msg |-> MsgNotOnline("b"), ok |-> TRUE]
        /\ pc[c] = "read" /\ name[c] = "a" /\ "b" \notin DOMAIN clients
        /\ clients["a"] = c

\* g does not occur in the text of /list groups
Unlisted(g, grp) == \A i \in 1..Len(GroupListing(grp)) : GroupListing(grp)[i] # g

\* a create of an absent group makes the caller its only member
CreateStep(c) ==
    pc[c] = "gc_lock" /\ GroupName(c) \notin DOMAIN groups /\ Stepped(c) =>
        /\ groups' = Upd(groups, GroupName(c), {name[c]})
        /\ reply'[c] = MsgCreated(GroupName(c))

\* a join adds the caller to the members there are
JoinStep(c) ==
    pc[c] = "gj_lock" /\ GroupName(c) \in DOMAIN groups /\ Stepped(c) =>
        /\ groups' = Upd(groups, GroupName(c), groups[GroupName(c)] \cup {name[c]})
        /\ reply'[c] = MsgJoined(GroupName(c))

\* a leave removes the caller, and the group with its last member
LeaveStep(c) ==
    pc[c] = "gl_lock" /\ name[c] \in MembersOf(groups, GroupName(c)) /\ Stepped(c) =>
        /\ reply'[c] = MsgLeft(GroupName(c))
        /\ IF groups[GroupName(c)] = {name[c]}
           THEN /\ groups' = Del(groups, GroupName(c))
                /\ Unlisted(GroupName(c), groups')
           ELSE groups' = Upd(groups, GroupName(c), groups[GroupName(c)] \ {name[c]})

\* C10: after a successful create(G, A) the member set of G is {A}; after a
\* following join(G, B) it is {A, B}; after both have left, in either order, G
\* is absent from the group listing and can be created again.
C10_CreateJoinLeave ==
    [][\A c \in Conns : CreateStep(c) /\ JoinStep(c) /\ LeaveStep(c)]_vars

\* both members have left a group of two, which is gone, and one of them has
\* created it again
C10_Witness ==
    \E c, d \in Conns, g \in Groups :
        /\ c # d
        /\ pc[c] = "reply" /\ reply[c] = MsgLeft(g)
        /\ pc[d] = "reply" /\ reply[d] = MsgCreated(g)
        /\ groups[g] = {name[d]}

\* handler c is at the entry of a critical section
WantsLock(c) ==
    pc[c] \in {"neg_lock", "lu_lock", "lg_lock", "pm_lock", "gc_lock", "gj_lock",
               "gl_lock", "gs_snap", "gs_lookup", "bc_snap", "rc_lock"}

\* handler c holds the lock and is in a write to a peer that does not read
StalledInLock(c) ==
    lock = c /\ pc[c] = "reply_locked" /\ c \in stalled /\ c \notin closed

\* C6: a handler never blocks waiting on another handler: while the write of
\* one connection stalls for good, no other handler is kept from its registry
\* operation.
C6_NeverBlockedByStalledPeer ==
    \A c, d \in Conns : c # d /\ WantsLock(c) => ~StalledInLock(d)

\* handler c is between a received line and the next read
Busy(c) == pc[c] \notin {"neg_read", "read", "done"}

\* C7: with every write completing, no handler waits for the registry lock
\* for ever and every started command finishes, whatever the interleaving of
\* negotiation, list, private message, group commands and disconnect.
C7_EveryCommandFinishes == \A c \in LiveConns : Busy(c) ~> ~Busy(c)

\* a handler waits for the lock while another holds it
C7_Witness ==
    \E c, d \in Conns : c # d /\ WantsLock(c) /\ lock = d

\* a join by a caller who is a member already changes nothing, and its
\* confirmation is due next like that of a first join
JoinAgainStep(c) ==
    /\ pc[c] = "gj_lock" /\ name[c] \in MembersOf(groups, GroupName(c)) /\ Stepped(c) =>
          /\ UNCHANGED Registry /\ net' = NoWrite
          /\ pc'[c] = "reply" /\ reply'[c] = MsgJoined(GroupName(c)) /\ ret'[c] = "read"
    /\ pc[c] = "gj_lock" /\ GroupName(c) \in DOMAIN groups /\ Stepped(c) =>
          /\ pc'[c] = "reply" /\ reply'[c] = MsgJoined(GroupName(c))
          /\ groups'[GroupName(c)] = groups[GroupName(c)] \cup {name[c]}

\* the confirmation of a join goes to the sender and changes nothing
JoinAnswer(c) ==
    pc[c] = "reply" /\ Len(reply[c]) = 3 /\ reply[c][1] = "Joined group " /\ Stepped(c) =>
        /\ WroteOwn(c, reply[c]) /\ UNCHANGED Registry /\ pc'[c] = "read"

\* C11: join is idempotent: a join(G, N) by a member N of G leaves the member
\* set of G and the whole Group Registry unchanged, and it is answered
\* "Joined group G." like the first join.
C11_JoinIdempotent == [][\A c \in Conns : JoinAgainStep(c) /\ JoinAnswer(c)]_vars

\* the only handler that has run so far has created g and then joined it: the
\* confirmation of the join is due and it is still the only member
C11_Witness ==
    \E c \in Conns, g \in Groups :
        /\ pc[c] = "reply" /\ reply[c] = MsgJoined(g) /\ groups[g] = {name[c]}
        /\ \A d \in Conns \ {c} : pc[d] = "welcome"

\* the nickname grammar: one or more letters, digits and underscores
InGrammar(s) ==
    /\ Chars(s) # <<>>
    /\ \A i \in 1..Len(Chars(s)) : Chars(s)[i] \in AlnumChars \cup {"_"}

\* the handler of c reads the one line its client has sent
ReadsLine(c) == Len(inbox[c]) = 1 /\ inbox'[c] = <<>>

\* a candidate of the grammar goes on to the registration, any other one but
\* the abort line is refused with the re-prompt and changes nothing
CandidateStep(c) ==
    pc[c] = "neg_read" /\ ReadsLine(c) /\ Lower(inbox[c][1]) # "/quit" =>
        IF InGrammar(inbox[c][1])
        THEN pc'[c] = "neg_lock" /\ cand'[c] = inbox[c][1] /\ UNCHANGED Registry
        ELSE WroteOwn(c, MsgInvalid) /\ pc'[c] = "neg_read" /\ UNCHANGED Registry

\* C12: a candidate is registered if and only if it is non-empty, made of
\* letters, digits and underscores only, and not in the Session Registry
\* (compared case-sensitively); every such candidate, one made only of
\* underscores included, is accepted, and every other candidate re-prompts
\* and leaves the registry unchanged.
C12_CandidateRule ==
    [][\A c \in Conns : CandidateStep(c) /\ RegisterStep(c) /\ RegisterAnswer(c)]_vars

\* the candidates the test of server.py:99 and the grammar agree on
AgreedStep(c) ==
    pc[c] = "neg_read" /\ ReadsLine(c) /\ inbox[c][1] # "_" => CandidateStep(c)

\* the parts of C12 other than the one about candidates made of underscores
C12_ExceptUnderscores ==
    [][\A c \in Conns : AgreedStep(c) /\ RegisterStep(c) /\ RegisterAnswer(c)]_vars

\* every session of the registry is bound to a socket its handler has not closed
RegisteredIsOpen == \A n \in DOMAIN clients : clients[n] \notin closed

\* C13: in every reachable state every nickname of the Session Registry is
\* bound to a connection handle that is still open, and at most one live
\* connection is bound to any nickname.
C13_RegisteredIsOpen == RegisteredIsOpen /\ OneHolder

\* handler c is in Connecting: it has not registered a nickname
Connecting(c) ==
    \/ pc[c] \in {"welcome", "neg_read", "neg_lock"}
    \/ pc[c] = "reply_locked" /\ ret[c] = "neg_read"

\* the sockets the Session Registry holds
Registered(cl) == SocketsOf(cl, DOMAIN cl)

\* the write w is a system notice (server.py:259)
IsNotice(w) == Len(w.msg) >= 1 /\ w.msg[1] = "[System] "

\* a connection that is in Connecting, or has left it by an abort, has no
\* session and no name, and a connection whose handler is done has no session
NoSessionYet ==
    \A c \in Conns :
        /\ Connecting(c) \/ (pc[c] = "close" /\ name[c] = None) =>
              c \notin Registered(clients) /\ name[c] = None
        /\ pc[c] = "done" => c \notin Registered(clients) /\ name[c] = None
        /\ \A g \in DOMAIN groups : None \notin groups[g]

\* the abort line, in either letter case, is answered "Goodbye!" and ends the
\* negotiation; so does the end of the stream, with no answer; neither
\* touches a registry
AbortStep(c) ==
    /\ pc[c] = "neg_read" /\ ReadsLine(c) /\ inbox[c][1] \in {"/quit", "/QUIT"} =>
          WroteOwn(c, MsgGoodbye) /\ pc'[c] = "close"
    /\ pc[c] = "neg_read" /\ pc'[c] = "close" =>
          /\ name'[c] = None /\ UNCHANGED Registry
          /\ net' = NoWrite \/ WroteOwn(c, MsgGoodbye)

\* after an abort the handle is closed and the handler is done: it takes no
\* further step, touches no registry and writes nothing
AbortEnds(c) ==
    /\ pc[c] = "close" /\ name[c] = None /\ Stepped(c) =>
          pc'[c] = "done" /\ UNCHANGED Registry /\ net' = NoWrite
    /\ pc[c] = "done" => pc'[c] = "done" /\ net'.by # c

\* a system notice is written only by a handler that holds a name
NoticeHasName == IsNotice(net') => name[net'.by] # None /\ pc[net'.by] = "bc_send"

\* C14: a connection that in Connecting sends /quit, in any letter case, or
\* closes its stream goes to Closed without ever appearing in the Session
\* Registry or in a group, and no "joined" or "left" notice is broadcast for it,
\* whatever candidates it submitted before.
C14_AbortLeavesNoTrace ==
    /\ []NoSessionYet
    /\ [][/\ \A c \in Conns : AbortStep(c) /\ AbortEnds(c)
          /\ NoticeHasName]_vars

\* a handler has answered the abort line while the other connection holds a
\* session: it is about to close, with no session and no name
C14_Witness ==
    \E c \in Conns :
        /\ pc[c] = "close" /\ name[c] = None
        /\ net = [by |-> c, to |-> c, msg |-> MsgGoodbye, ok |-> TRUE]
        /\ clients # <<>> /\ c \notin Registered(clients)

\* the handler of a registered session has stopped: its cleanup is due
Stopped(c) == pc[c] = "close" /\ name[c] # None

\* C15: whenever the handler of a registered session stops (Quit, end of
\* stream or a read error) the cleanup eventually runs for that session only:
\* its nickname leaves the Session Registry and is free for a new connection,
\* and no other session's entry or group membership changes.
C15_CleanupRuns ==
    /\ \A c \in Conns : Stopped(c) ~> c \notin Registered(clients)
    /\ [][RemovalStep]_vars

\* a write of a broadcast, failed or not, takes its recipient off the
\* snapshot and leaves the others to be written; after the last one the
\* handler goes on where it was, and no registry changes
BroadcastGoesOn(c) ==
    pc[c] = "bc_send" /\ Stepped(c) =>
        /\ net'.by = c /\ net'.to \in recipients[c] /\ net'.msg = Notice(c)
        /\ net'.ok = (net'.to \notin closed)
        /\ recipients'[c] = recipients[c] \ {net'.to}
        /\ pc'[c] = IF recipients'[c] = {} THEN AfterBroadcast(c) ELSE "bc_send"
        /\ UNCHANGED Registry

\* a write of a group send, failed or not, leaves the members still to be
\* visited as they are; after the last one the self-echo is due and then the
\* read loop, and no registry changes
GroupSendGoesOn(c) ==
    pc[c] = "gs_write" /\ Stepped(c) =>
        /\ net'.by = c /\ net'.to = rcpt[c]
        /\ net'.ok = (net'.to \notin closed)
        /\ members'[c] = members[c]
        /\ IF members[c] = {}
           THEN /\ pc'[c] = "reply" /\ ret'[c] = "read"
                /\ reply'[c] = MsgGroupEcho(GroupName(c), GroupText(c))
           ELSE pc'[c] = "gs_lookup"
        /\ UNCHANGED Registry

\* a fan-out stops only when its snapshot is used up
FanOutEnds(c) ==
    /\ pc[c] = "bc_send" /\ pc'[c] # "bc_send" => recipients'[c] = {}
    /\ pc[c] \in {"gs_lookup", "gs_write"} /\ pc'[c] \notin {"gs_lookup", "gs_write"} =>
          members'[c] = {} /\ pc'[c] = "reply"

\* C16: a write failure is swallowed at the write: in a system broadcast and
\* in a group send a failed write to one recipient never stops the fan-out,
\* every remaining recipient of the snapshot is still written to, the sender's
\* handler stays in Active and no registry changes.
C16_FailedWriteSwallowed ==
    [][\A c \in Conns : BroadcastGoesOn(c) /\ GroupSendGoesOn(c) /\ FanOutEnds(c)]_vars

\* a write of the "joined" notice to a closed socket has just failed, and the
\* handler goes on with the recipients that remain
C16_Witness ==
    \E c \in Conns :
        /\ net.by = c /\ ~net.ok /\ net.to \in closed /\ IsNotice(net)
        /\ c \notin closed /\ pc[c] = "bc_send" /\ recipients[c] # {}

\* the notice for a line that is malformed or not recognized: text without
\* the command prefix, an unknown command, /list, /msg or /group with too few
\* arguments, an unknown list target, an unknown group action
NoticeFor(t) ==
    CASE t = <<"hello">> -> MsgUnknownInput
      [] t = <<"/who">> -> MsgUnknownCmd
      [] t = <<"/list">> -> MsgUsageList
      [] t = <<"/list", "rooms">> -> MsgUnknownTarget
      [] t = <<"/msg", "a">> -> MsgUsageMsg
      [] t = <<"/group", "create">> -> MsgUsageGroup
      [] t = <<"/group", "send", "g">> -> MsgUsageSend
      [] t = <<"/group", "kick", "g">> -> MsgUnknownAction
      [] OTHER -> NoLine

\* an empty line is answered by nothing and changes nothing; a malformed or
\* unrecognized line is answered by its notice, written to the sender only,
\* and changes nothing; either way the handler reads its next line
ProtocolErrorStep(c) ==
    pc[c] = "read" /\ ReadsLine(c) =>
        /\ inbox[c][1] = <<>> =>
              /\ net' = NoWrite /\ pc'[c] = "read" /\ UNCHANGED Registry
              /\ UNCHANGED <<cmd, reply, ret, name, closed>>
        /\ NoticeFor(inbox[c][1]) # NoLine =>
              /\ WroteOwn(c, NoticeFor(inbox[c][1])) /\ pc'[c] = "read"
              /\ UNCHANGED Registry
              /\ UNCHANGED <<cmd, reply, ret, name, closed>>

\* C17: in Active an empty line produces no response and no state change;
\* every malformed or unrecognized input produces exactly one notice line, to
\* the sender only, changes neither registry, writes to no other connection
\* and leaves the handler in Active.
C17_ProtocolErrors == [][\A c \in Conns : ProtocolErrorStep(c)]_vars

\* the sender of "/group kick g" has been told that the action is unknown,
\* and is back in the read loop with its session
C17_Witness ==
    \E c \in Conns :
        /\ net = [by |-> c, to |-> c, msg |-> MsgUnknownAction, ok |-> TRUE]
        /\ pc[c] = "read" /\ inbox[c] = <<>>
        /\ name[c] \in DOMAIN clients /\ clients[name[c]] = c

\* the snapshot of a notice is the registry of that moment: with the session
\* of N in it for "joined", and after the removal of N, so without N's own
\* connection, for "left"
NoticeSnapshot(c) ==
    pc[c] = "bc_snap" /\ Stepped(c) =>
        /\ recipients'[c] = Registered(clients) /\ UNCHANGED Registry
        /\ IF c \in closed
           THEN c \notin recipients'[c]
           ELSE c \in recipients'[c] /\ clients[name[c]] = c

\* a notice is written by the handler of N, names N, goes to a socket of the
\* snapshot that has not been written yet, and "left" never to N's own
NoticeWrite ==
    IsNotice(net') =>
        /\ pc[net'.by] = "bc_send" /\ net'.to \in recipients[net'.by]
        /\ recipients'[net'.by] = recipients[net'.by] \ {net'.to}
        /\ net'.msg = MsgSystem(IF net'.by \in closed
                                THEN MsgLeftChat(name[net'.by])
                                ELSE MsgJoinedChat(name[net'.by]))
        /\ net'.by \in closed => net'.to # net'.by

\* a handler passes each stage once: the registration and its "joined"
\* broadcast, then Active, then the close, the removal, the "left" broadcast
\* and the end; nothing is read once Quit is answered or the socket closed
StagesInOrder(c) ==
    /\ pc'[c] = "neg_hello" /\ pc[c] # "neg_hello" => Connecting(c)
    /\ Connecting(c)' => Connecting(c)
    /\ pc'[c] = "bc_snap" /\ pc[c] # "bc_snap" =>
          \/ pc[c] = "neg_hello" /\ c \notin closed
          \/ pc[c] = "rc_lock" /\ c \in closed
    /\ pc'[c] = "rc_lock" /\ pc[c] # "rc_lock" => pc[c] = "close" /\ name[c] # None
    /\ pc'[c] = "close" => c \notin closed
    /\ c \in closed => c \in closed' /\ pc'[c] \in {"rc_lock", "bc_snap", "bc_send", "done"}
    /\ pc[c] = "done" => pc'[c] = "done"
    /\ net'.by = c /\ net'.msg = MsgBye => pc'[c] = "close"

\* C18: for every session N that reaches Active, "[System] N joined the
\* chat." is broadcast exactly once, to the sessions of the registry at that
\* moment, N included, and before "[System] N left the chat."; that one is
\* broadcast exactly once, after the removal of N, to the sessions that
\* remain and never to N's own connection; after Quit no further input of the
\* connection is processed.
C18_JoinedThenLeft ==
    [][/\ \A c \in Conns : NoticeSnapshot(c) /\ StagesInOrder(c)
       /\ NoticeWrite]_vars

\* the session of N has been removed and its handler is writing the "left"
\* notice to the sessions that remain
C18_Witness ==
    \E c \in Conns :
        /\ c \in closed /\ pc[c] = "bc_send" /\ recipients[c] # {}
        /\ c \notin Registered(clients) /\ c \notin recipients[c]
        /\ net.by = c /\ net.msg = MsgSystem(MsgLeftChat(name[c])) /\ net.ok

\* the handler of c reads from its socket
Reads(c) == inbox[c] # <<>> /\ inbox'[c] # inbox[c]

\* a read in Active takes the first line that was sent, handles it as the
\* line it is, and leaves the lines after it to the next read
ActiveLineByLine(c) ==
    pc[c] = "read" /\ Reads(c) =>
        LET d == Dispatch(Head(inbox[c])) IN
        /\ inbox'[c] = Tail(inbox[c])
        /\ pc'[c] = d.p
        /\ d.m # NoLine => WroteOwn(c, d.m)
        /\ d.m = NoLine /\ d.p # "read" => cmd'[c] = Head(inbox[c])

\* a read of the negotiation takes the first line that was sent as the
\* candidate and leaves the lines after it to the next read
CandidateLineByLine(c) ==
    pc[c] = "neg_read" /\ Reads(c) =>
        /\ inbox'[c] = Tail(inbox[c])
        /\ IF Lower(Head(inbox[c])) = "/quit"
           THEN WroteOwn(c, MsgGoodbye) /\ pc'[c] = "close"
           ELSE IF ValidNick(Head(inbox[c]))
           THEN pc'[c] = "neg_lock" /\ cand'[c] = Head(inbox[c])
           ELSE WroteOwn(c, MsgInvalid) /\ pc'[c] = "neg_read"

\* C19: input is decoded into newline-terminated lines and each line is
\* processed as its own candidate or command, in the order sent, however the
\* byte stream is split into reads: two lines that arrive in one read are
\* processed as two inputs, as if they had arrived in two reads.
C19_LineByLine ==
    [][\A c \in Conns : ActiveLineByLine(c) /\ CandidateLineByLine(c)]_vars

\* a read of one line is handled as the claim says
OneLinePerRead(c) ==
    Len(inbox[c]) = 1 => ActiveLineByLine(c) /\ CandidateLineByLine(c)

\* the part of C19 about reads that return one line
C19_OneLinePerRead == [][\A c \in Conns : OneLinePerRead(c)]_vars

\* nickname n is a member of no group
InNoGroup(n) == \A g \in DOMAIN groups : n \notin groups[g]

\* a session that has just been registered, and has run no command yet, is
\* a member of no group
FreshSession ==
    \A c \in Conns :
        /\ pc[c] = "neg_hello" => InNoGroup(cand[c])
        /\ pc[c] \in {"bc_snap", "bc_send"} /\ c \notin closed => InNoGroup(name[c])

\* C20: in every state observable while the registry lock is free, every
\* member of every group is a nickname of the Session Registry; so a
\* connection that registers a nickname used earlier by a disconnected
\* session starts as a member of no group.
C20_MembersAreSessions ==
    /\ lock = None => \A g \in DOMAIN groups : \A n \in groups[g] : n \in DOMAIN clients
    /\ FreshSession

\* a new connection has registered the nickname of a session that has ended;
\* a group send in progress still lists that nickname as a member of the
\* group, and the nickname is in no group now
C20_Witness ==
    \E c, d, e \in Conns :
        /\ c \in closed /\ pc[c] \in {"bc_snap", "bc_send"}
        /\ pc[d] = "neg_hello" /\ cand[d] = name[c]
        /\ pc[e] = "gs_lookup" /\ cand[d] \in members[e]
        /\ DOMAIN groups # {} /\ InNoGroup(cand[d])

====
